---- MODULE Spec2Model ----
(***************************************************************************)
(* Model of the databalancer storage layer: the logs service               *)
(* (pkg/logs/service.go), the MySQL client (pkg/mysql/client.go), the      *)
(* statement builders (pkg/mysql/statements.go) and the HTTP handler in    *)
(* front of the service (pkg/server/http.go).                              *)
(*                                                                         *)
(* Spec is the service called directly, SpecHTTP the service behind the    *)
(* HTTP handler, SpecBuild the statement builders on their own, SpecRace   *)
(* two Ingest calls handled at the same time, and SpecCache the client     *)
(* with the family-to-table cache (FindOrCreateTable) called by two        *)
(* requests at the same time.                                              *)
(*                                                                         *)
(* Go strings are sequences of byte values.  A Go map is a TLA+ function   *)
(* whose domain is the key set; iteration over a map is in arbitrary       *)
(* order.  A JSON value is a record [type, val].                           *)
(***************************************************************************)
EXTENDS Integers, Sequences, FiniteSets, TLC

(***************************************************************************)
(* Bounds of the model.                                                    *)
(***************************************************************************)
\* longest batch of records in one Ingest request
MaxBatch == 2
\* most rows a table holds: an Ingest that would exceed it is not explored
MaxRows == 2

(***************************************************************************)
(* Strings as byte sequences.                                              *)
(***************************************************************************)
\* "`"
BQ == <<96>>
\* "id"
IdName == <<105, 100>>
\* "` TEXT, " (the closing backtick and the column type)
TextSuffix == <<96, 32, 84, 69, 88, 84, 44, 32>>
\* "` INT, "
IntSuffix == <<96, 32, 73, 78, 84, 44, 32>>

\* the field names of the requests: "a" (age), "n" (name), "w" (weight)
fAge == <<97>>
fName == <<110>>
fWeight == <<119>>
\* the families of the requests: "c" (cat_registry), "d" (dog_registry)
famCat == <<99>>
famDog == <<100>>

Min(a, b) == IF a < b THEN a ELSE b

\* Go's string comparison (byte-wise lexicographic), as sort.Strings uses it
StrLess(a, b) ==
    \/ /\ Len(a) < Len(b)
       /\ \A i \in 1..Len(a) : a[i] = b[i]
    \/ \E i \in 1..Min(Len(a), Len(b)) :
          /\ a[i] < b[i]
          /\ \A j \in 1..(i - 1) : a[j] = b[j]

\* sort.Strings applied to a slice holding the strings of S (once each)
RECURSIVE SortStrings(_)
SortStrings(S) ==
    IF S = {} THEN <<>>
    ELSE LET m == CHOOSE x \in S : \A y \in S \ {x} : StrLess(x, y)
         IN  <<m>> \o SortStrings(S \ {m})

\* the two bytes Escape writes for byte c, or <<c>> when c is not escaped
EscapeByte(c) ==
    CASE c = 0  -> <<92, 48>>
      [] c = 10 -> <<92, 110>>
      [] c = 13 -> <<92, 114>>
      [] c = 92 -> <<92, 92>>
      [] c = 39 -> <<92, 39>>
      [] c = 34 -> <<92, 34>>
      [] c = 26 -> <<92, 90>>
      [] OTHER  -> <<c>>

RECURSIVE Escape(_)
Escape(sql) ==
    IF sql = <<>> THEN <<>>
    ELSE EscapeByte(Head(sql)) \o Escape(Tail(sql))

(***************************************************************************)
(* JSON values, as encoding/json decodes them into interface{}.            *)
(***************************************************************************)
Str(k) == [type |-> "string", val |-> k]
Num(k) == [type |-> "number", val |-> k]
Bytes(k) == [type |-> "bytes", val |-> k]
Null == [type |-> "null", val |-> 0]

\* the empty map
EmptyMap == [x \in {} |-> Null]

(***************************************************************************)
(* Statement builders.  A statement is kept as the record of its variable  *)
(* parts; the text between them is fixed by the builder.                   *)
(***************************************************************************)
\* a builder that gives every entry a column
SupportedTagAll(fieldType) == TRUE

\* the type tags CreateTableStatement has a column type for
SupportedTag(fieldType) == fieldType \in {"string", "int"}

\* the column clause of one schema entry: "`" + Escape(fieldName) + "` TEXT, "
ColumnClause(fieldName, fieldType) ==
    IF fieldType = "string"
    THEN BQ \o Escape(fieldName) \o TextSuffix
    ELSE BQ \o Escape(fieldName) \o IntSuffix

\* a CREATE TABLE statement without IF NOT EXISTS
CreateUnconditional == FALSE

\* IF NOT EXISTS is part of the statement text
CreateIfNotExists == TRUE

CreateTableStatement(name, schema) ==
    [ op          |-> "create",
      ifNotExists |-> CreateIfNotExists,
      table       |-> Escape(name),
      fields      |-> SortStrings({ColumnClause(f, schema[f]) :
                          f \in {g \in DOMAIN schema : SupportedTag(schema[g])}}),
      width       |-> 0,
      groups      |-> 0 ]

\* the value a Go map lookup gives: the zero value (nil) for a missing key
Lookup(record, key) == IF key \in DOMAIN record THEN record[key] ELSE Null

\* the arguments one record contributes, for the sorted escaped field names
RECURSIVE RecordArgs(_, _)
RecordArgs(record, fieldNames) ==
    IF fieldNames = <<>> THEN <<>>
    ELSE LET fieldValue == Lookup(record, Head(fieldNames))
         IN  (IF fieldValue # Null THEN <<fieldValue>> ELSE <<>>)
             \o RecordArgs(record, Tail(fieldNames))

RECURSIVE InsertArgs(_, _)
InsertArgs(records, fieldNames) ==
    IF records = <<>> THEN <<>>
    ELSE RecordArgs(Head(records), fieldNames) \o InsertArgs(Tail(records), fieldNames)

InsertFieldNames(schema) == SortStrings({Escape(f) : f \in DOMAIN schema})

\* an INSERT that stores each distinct record of the batch once
InsertTableStatementDedup(name, schema, records) ==
    LET keep   == {i \in 1..Len(records) : \A j \in 1..(i - 1) : records[j] # records[i]}
        nth(k) == CHOOSE i \in keep : Cardinality({j \in keep : j < i}) = k - 1
        uniq   == [k \in 1..Cardinality(keep) |-> records[nth(k)]]
    IN  [ stmt |-> [ op          |-> "insert",
                     ifNotExists |-> FALSE,
                     table       |-> Escape(name),
                     fields      |-> InsertFieldNames(schema),
                     width       |-> Cardinality(DOMAIN schema),
                     groups      |-> Len(uniq) ],
          args |-> InsertArgs(uniq, InsertFieldNames(schema)) ]

InsertTableStatement(name, schema, records) ==
    [ stmt |-> [ op          |-> "insert",
                 ifNotExists |-> FALSE,
                 table       |-> Escape(name),
                 fields      |-> InsertFieldNames(schema),
                 width       |-> Cardinality(DOMAIN schema),
                 groups      |-> Len(records) ],
      args |-> InsertArgs(records, InsertFieldNames(schema)) ]

(***************************************************************************)
(* Errors.  A Go error built by pkg/errors is the list of its message      *)
(* layers, outermost first; nil is the empty list.  A layer names the      *)
(* table, family or field, or the query, its format string prints.         *)
(***************************************************************************)
Nil == <<>>
Layer(msg, name, query) == [msg |-> msg, name |-> name, query |-> query]
Errorf(msg, name) == <<Layer(msg, name, <<>>)>>
Wrapf(err, msg, name) == <<Layer(msg, name, <<>>)>> \o err
WrapQuery(err, msg, query) == <<Layer(msg, <<>>, query)>> \o err

ErrReadOnly == Errorf("service can only be used to query records", <<>>)

(***************************************************************************)
(* The MySQL database behind the connection: a map from table name to its  *)
(* columns, rows and AUTO_INCREMENT counter.  Exec is what the server      *)
(* answers to the statements the builders produce.                         *)
(***************************************************************************)
IdColumn == [name |-> IdName, type |-> "INT", nullable |-> FALSE]

\* the position of the backtick that closes the identifier of a clause
RECURSIVE ClauseClose(_, _)
ClauseClose(text, k) ==
    IF k > Len(text) THEN 0
    ELSE IF text[k] = 96 THEN k
    ELSE ClauseClose(text, k + 1)

ClauseOk(text) ==
    /\ Len(text) > 2
    /\ text[1] = 96
    /\ ClauseClose(text, 2) > 2
    /\ SubSeq(text, ClauseClose(text, 2), Len(text)) \in {TextSuffix, IntSuffix}

ClauseColumn(text) ==
    [ name     |-> SubSeq(text, 2, ClauseClose(text, 2) - 1),
      type     |-> IF SubSeq(text, ClauseClose(text, 2), Len(text)) = TextSuffix
                   THEN "TEXT" ELSE "INT",
      nullable |-> TRUE ]

\* a backtick-quoted identifier is one identifier when it is not empty and
\* holds no backtick
IdentOk(ident) == ident # <<>> /\ \A i \in 1..Len(ident) : ident[i] # 96

ColumnNames(cols) == {cols[i].name : i \in 1..Len(cols)}

ColumnType(cols, name) ==
    (CHOOSE c \in {cols[i] : i \in 1..Len(cols)} : c.name = name).type

MySQLError(msg) == Errorf(msg, <<>>)

ExecCreate(d, stmt) ==
    LET cols == <<IdColumn>> \o [i \in 1..Len(stmt.fields) |-> ClauseColumn(stmt.fields[i])]
    IN  IF ~IdentOk(stmt.table) \/ \E i \in 1..Len(stmt.fields) : ~ClauseOk(stmt.fields[i])
        THEN [db |-> d, err |-> MySQLError("mysql: syntax error")]
        ELSE IF stmt.table \in DOMAIN d
        THEN IF stmt.ifNotExists
             THEN [db |-> d, err |-> Nil]
             ELSE [db |-> d, err |-> MySQLError("mysql: table already exists")]
        ELSE IF Cardinality(ColumnNames(cols)) # Len(cols)
        THEN [db |-> d, err |-> MySQLError("mysql: duplicate column name")]
        ELSE [db  |-> [t \in DOMAIN d \cup {stmt.table} |->
                          IF t = stmt.table
                          THEN [cols |-> cols, rows |-> <<>>, autoInc |-> 1]
                          ELSE d[t]],
              err |-> Nil]

\* the value a column of the given type stores for a bound argument
Stored(type, arg) == IF type = "TEXT" THEN Str(arg.val) ELSE Num(arg.val)

\* the row the g-th value group inserts; columns not listed stay NULL
NewRow(table, stmt, args, g) ==
    [c \in ColumnNames(table.cols) |->
        IF c = IdName THEN Num(table.autoInc + g - 1)
        ELSE IF \E i \in 1..Len(stmt.fields) : stmt.fields[i] = c
        THEN LET i == CHOOSE j \in 1..Len(stmt.fields) : stmt.fields[j] = c
             IN  Stored(ColumnType(table.cols, c), args[(g - 1) * stmt.width + i])
        ELSE Null]

\* an INSERT that stores the rows its arguments fill before it reports that
\* their number is wrong
ExecInsertPartial(d, stmt, args) ==
    IF stmt.groups = 0 \/ stmt.width = 0 \/ ~IdentOk(stmt.table)
       \/ \E i \in 1..Len(stmt.fields) : ~IdentOk(stmt.fields[i])
    THEN [db |-> d, err |-> MySQLError("mysql: syntax error")]
    ELSE IF stmt.table \notin DOMAIN d
    THEN [db |-> d, err |-> MySQLError("mysql: table does not exist")]
    ELSE IF \E i \in 1..Len(stmt.fields) : stmt.fields[i] \notin ColumnNames(d[stmt.table].cols)
    THEN [db |-> d, err |-> MySQLError("mysql: unknown column")]
    ELSE LET filled == {g \in 1..stmt.groups : g * stmt.width <= Len(args)}
         IN  [db  |-> [d EXCEPT ![stmt.table] =
                          [ cols    |-> @.cols,
                            rows    |-> @.rows \o [g \in 1..Cardinality(filled) |->
                                                      NewRow(@, stmt, args, g)],
                            autoInc |-> @.autoInc + Cardinality(filled) ]],
              err |-> IF Len(args) # stmt.width * stmt.groups
                      THEN MySQLError("sql: wrong number of arguments") ELSE Nil]

ExecInsert(d, stmt, args) ==
    IF stmt.groups = 0 \/ stmt.width = 0 \/ ~IdentOk(stmt.table)
       \/ \E i \in 1..Len(stmt.fields) : ~IdentOk(stmt.fields[i])
    THEN [db |-> d, err |-> MySQLError("mysql: syntax error")]
    ELSE IF stmt.table \notin DOMAIN d
    THEN [db |-> d, err |-> MySQLError("mysql: table does not exist")]
    ELSE IF \E i \in 1..Len(stmt.fields) : stmt.fields[i] \notin ColumnNames(d[stmt.table].cols)
    THEN [db |-> d, err |-> MySQLError("mysql: unknown column")]
    ELSE IF Len(args) # stmt.width * stmt.groups
    THEN [db |-> d, err |-> MySQLError("sql: wrong number of arguments")]
    ELSE IF \E i \in 1..Len(args) :
              /\ args[i].type # "number"
              /\ ColumnType(d[stmt.table].cols, stmt.fields[((i - 1) % stmt.width) + 1]) = "INT"
    THEN [db |-> d, err |-> MySQLError("mysql: incorrect integer value")]
    ELSE [db  |-> [d EXCEPT ![stmt.table] =
                      [ cols    |-> @.cols,
                        rows    |-> @.rows \o [g \in 1..stmt.groups |-> NewRow(@, stmt, args, g)],
                        autoInc |-> @.autoInc + stmt.groups ]],
          err |-> Nil]

\* Exec on the connection: the statement reaches the server only when the
\* connection is up
Exec(d, up, stmt, args) ==
    IF ~up THEN [db |-> d, err |-> MySQLError("driver: bad connection")]
    ELSE IF stmt.op = "create" THEN ExecCreate(d, stmt)
    ELSE ExecInsert(d, stmt, args)

(***************************************************************************)
(* Queries.  A query string is the list of the statements it holds,        *)
(* separated by ';'; a statement is its verb and the table it names.  The  *)
(* verb "garbage" stands for text the SQL grammar rejects.                 *)
(***************************************************************************)
QStmt(verb, table) == [verb |-> verb, table |-> table]

\* the type of the syntax tree sqlparser.Parse builds for one statement
StmtType(verb) ==
    CASE verb = "select" -> "Select"
      [] verb = "insert" -> "Insert"
      [] verb = "drop"   -> "DDL"
      [] OTHER           -> "none"

ParseError == Errorf("syntax error", <<>>)

\* a parser that reads the first statement and ignores the text after it
ParseFirst(query) ==
    IF Head(query).verb = "garbage"
    THEN {[stmt |-> "none", err |-> ParseError]}
    ELSE {[stmt |-> StmtType(Head(query).verb), err |-> Nil]}

\* sqlparser.Parse on a query string: the possible results.  The grammar
\* accepts one statement with an optional final ';'.  Text after it is a
\* syntax error, which the parser reports, except that it may answer a
\* partially parsed DDL statement in spite of the error.
Parse(query) ==
    IF Head(query).verb = "garbage"
    THEN {[stmt |-> "none", err |-> ParseError]}
    ELSE IF Len(query) = 1
    THEN {[stmt |-> StmtType(Head(query).verb), err |-> Nil]}
    ELSE {[stmt |-> "none", err |-> ParseError]}
         \cup (IF StmtType(Head(query).verb) = "DDL"
               THEN {[stmt |-> "DDL", err |-> Nil]} ELSE {})

\* a type switch that lets every statement through
IsSelectAny(stmt) == TRUE

\* the case *sqlparser.Select of the type switch
IsSelect(stmt) == stmt = "Select"

(***************************************************************************)
(* The MySQL client.                                                       *)
(***************************************************************************)
\* the handle CreateTable returns
TableHandle(name, schema) == [Name |-> name, Schema |-> schema]

\* Client.CreateTable: the database after it, the handle and the error
CreateTable(d, up, name, schema) ==
    LET create == CreateTableStatement(name, schema)
        res    == Exec(d, up, create, <<>>)
    IN  IF res.err # Nil
        THEN [db |-> res.db, sent |-> <<create>>, table |-> TableHandle(<<>>, EmptyMap),
              err |-> Wrapf(res.err, "creating %s table", name)]
        ELSE [db |-> res.db, sent |-> <<create>>, table |-> TableHandle(name, schema),
              err |-> Nil]

\* an Insert that passes the error of Exec on as it got it
InsertBareError(d, up, t, logs) ==
    LET built == InsertTableStatement(t.Name, t.Schema, logs)
        res   == Exec(d, up, built.stmt, built.args)
    IN  [db |-> res.db, sent |-> <<built.stmt>>, args |-> built.args, err |-> res.err]

\* Table.Insert
Insert(d, up, t, logs) ==
    LET built == InsertTableStatement(t.Name, t.Schema, logs)
        res   == Exec(d, up, built.stmt, built.args)
    IN  IF res.err # Nil
        THEN [db |-> res.db, sent |-> <<built.stmt>>, args |-> built.args,
              err |-> Wrapf(res.err, "inserting records for %s table", t.Name)]
        ELSE [db |-> res.db, sent |-> <<built.stmt>>, args |-> built.args, err |-> Nil]

\* the value rows.MapScan puts in the map for a stored column value: the
\* driver delivers text as []byte, integers as numbers and NULL as nil
Scanned(v) == IF v.type = "string" THEN Bytes(v.val) ELSE v

\* rows passed on as scanned
CastNothing(v) == v

\* the cast of []byte values to string
CastBytes(v) == IF v.type = "bytes" THEN Str(v.val) ELSE v

\* the rows a prepared statement returns, and what it does to the database
Queryx(d, query) ==
    LET st == Head(query)
    IN  IF Len(query) # 1 \/ st.verb = "garbage"
        THEN [db |-> d, rows |-> <<>>, err |-> MySQLError("mysql: syntax error")]
        ELSE IF st.table \notin DOMAIN d
        THEN [db |-> d, rows |-> <<>>, err |-> MySQLError("mysql: table does not exist")]
        ELSE IF st.verb = "select"
        THEN [db |-> d, rows |-> d[st.table].rows, err |-> Nil]
        ELSE IF st.verb = "drop"
        THEN [db |-> [t \in DOMAIN d \ {st.table} |-> d[t]], rows |-> <<>>, err |-> Nil]
        ELSE [db |-> [d EXCEPT ![st.table] =
                        [ cols    |-> @.cols,
                          rows    |-> @.rows \o
                                      <<[c \in ColumnNames(@.cols) |->
                                           IF c = IdName THEN Num(@.autoInc) ELSE Null]>>,
                          autoInc |-> @.autoInc + 1 ]],
              rows |-> <<>>, err |-> Nil]

\* a QueryJSON that keeps the last row it scanned only
QueryJSONLastRow(d, up, query) ==
    IF ~up
    THEN [db |-> d, rows |-> <<>>,
          err |-> WrapQuery(MySQLError("driver: bad connection"),
                            "querying database with query '%s'", query)]
    ELSE LET res == Queryx(d, query)
         IN  IF res.err # Nil
             THEN [db |-> res.db, rows |-> <<>>,
                   err |-> WrapQuery(res.err, "querying database with query '%s'", query)]
             ELSE [db   |-> res.db,
                   rows |-> IF res.rows = <<>> THEN <<>>
                            ELSE <<[k \in DOMAIN res.rows[Len(res.rows)] |->
                                      CastBytes(Scanned(res.rows[Len(res.rows)][k]))]>>,
                   err  |-> Nil]

\* Client.QueryJSON
QueryJSON(d, up, query) ==
    IF ~up
    THEN [db |-> d, rows |-> <<>>,
          err |-> WrapQuery(MySQLError("driver: bad connection"),
                            "querying database with query '%s'", query)]
    ELSE LET res == Queryx(d, query)
         IN  IF res.err # Nil
             THEN [db |-> res.db, rows |-> <<>>,
                   err |-> WrapQuery(res.err, "querying database with query '%s'", query)]
             ELSE [db   |-> res.db,
                   rows |-> [i \in 1..Len(res.rows) |->
                               [k \in DOMAIN res.rows[i] |->
                                   CastBytes(Scanned(res.rows[i][k]))]],
                   err  |-> Nil]

(***************************************************************************)
(* The catalog.  information_schema.columns has one row for each column of *)
(* each table the account may see, in every schema of the server.          *)
(***************************************************************************)
\* the schema of the tables of the connection: the database the client opened
DbName == "databalancer"

CatalogRow(schema, name, column, nullable, datatype) ==
    [Schema |-> schema, Name |-> name, Column |-> column,
     Nullable |-> nullable, Datatype |-> datatype]

\* the catalog rows of one table of the database, in the order of its columns
TableRows(d, t) ==
    [i \in 1..Len(d[t].cols) |->
        CatalogRow(DbName, t, d[t].cols[i].name,
                   IF d[t].cols[i].nullable THEN "YES" ELSE "NO",
                   IF d[t].cols[i].type = "TEXT" THEN "text" ELSE "int")]

\* the rows of the Select in ORDER BY `name`: name by name, the rows of the
\* table of the database and the rows of other schemas' tables of that name;
\* which of the two come first is not fixed by the query
RECURSIVE RowsByName(_, _, _, _)
RowsByName(names, d, other, ownFirst) ==
    IF names = <<>> THEN <<>>
    ELSE LET n == Head(names)
             Named(r) == r.Name = n
             own == IF n \in DOMAIN d THEN TableRows(d, n) ELSE <<>>
             others == SelectSeq(other, Named)
         IN  (IF ownFirst THEN own \o others ELSE others \o own)
             \o RowsByName(Tail(names), d, other, ownFirst)

\* the Select of DescribeDatabase.  WHERE table_schema <> 'information_schema'
\* lets through the rows of every other schema, those of the database and
\* those of the other schemas the account may see
Select(d, up, other, ownFirst) ==
    IF ~up THEN [rows |-> <<>>, err |-> MySQLError("driver: bad connection")]
    ELSE [rows |-> RowsByName(SortStrings(DOMAIN d \cup {other[i].Name : i \in 1..Len(other)}),
                              d, other, ownFirst),
          err  |-> Nil]

\* a comparison that never finds the row in the current table
SameTableNever(name, tables) == FALSE

\* tableDescription.Name == currentTable["name"]; the current table is the
\* last one appended, and there is none before the first row
SameTable(name, tables) == tables # <<>> /\ tables[Len(tables)].name = name

\* the loop of DescribeDatabase over the rows, from the tables built so far
RECURSIVE DescribeRows(_, _)
DescribeRows(rows, tables) ==
    IF rows = <<>> THEN tables
    ELSE LET tableDescription == Head(rows)
             column == [name     |-> tableDescription.Column,
                        nullable |-> tableDescription.Nullable = "YES",
                        type     |-> tableDescription.Datatype]
         IN  IF SameTable(tableDescription.Name, tables)
             THEN DescribeRows(Tail(rows),
                      [tables EXCEPT ![Len(tables)].columns = Append(@, column)])
             ELSE DescribeRows(Tail(rows),
                      Append(tables, [name |-> tableDescription.Name, columns |-> <<column>>]))

\* Client.DescribeDatabase: the rows it read, the tables it returns, the error
DescribeDatabase(d, up, other, ownFirst) ==
    LET res == Select(d, up, other, ownFirst)
    IN  IF res.err # Nil
        THEN [rows |-> <<>>, tables |-> <<>>, err |-> Wrapf(res.err, "describing databse", <<>>)]
        ELSE [rows |-> res.rows, tables |-> DescribeRows(res.rows, <<>>), err |-> Nil]

(***************************************************************************)
(* The logs service.                                                       *)
(***************************************************************************)
\* what checkLogSchema does with one field of a log event
FieldCheck(schema, field, value) ==
    IF field \notin DOMAIN schema THEN "unspecified"
    ELSE IF schema[field] = "string"
    THEN (IF value.type = "string" THEN "ok" ELSE "panic")
    ELSE IF schema[field] = "int"
    THEN (IF value.type = "number" THEN "ok" ELSE "panic")
    ELSE "unsupported"

\* the fields of a log event at which the loop over it stops
Stops(schema, logEvent) ==
    {f \in DOMAIN logEvent : FieldCheck(schema, f, logEvent[f]) # "ok"}

CheckOutcome(kind, field) == [kind |-> kind, field |-> field]

\* checkLogSchema: the possible outcomes.  The events are visited in order;
\* the fields of an event in the arbitrary order of Go's map iteration, so
\* the loop stops at any of the event's fields that stop it.
checkLogSchema(schema, logs) ==
    LET bad == {i \in 1..Len(logs) : Stops(schema, logs[i]) # {}}
    IN  IF bad = {} THEN {CheckOutcome("ok", <<>>)}
        ELSE LET i == CHOOSE j \in bad : \A k \in bad : j <= k
             IN  {CheckOutcome(FieldCheck(schema, f, logs[i][f]), f) :
                     f \in Stops(schema, logs[i])}

\* the error checkLogSchema returns for an outcome
CheckError(chk) ==
    IF chk.kind = "unspecified"
    THEN Errorf("field %s was not specified in the schema", chk.field)
    ELSE Errorf("Unsupported data type in log for the field %s: %s", chk.field)

Return(rows, err) == [kind |-> "return", rows |-> rows, err |-> err]
Panic == [kind |-> "panic", rows |-> <<>>, err |-> Nil]
NoReturn == [kind |-> "none", rows |-> <<>>, err |-> Nil]

\* a parse failure reported as a read-only violation
ParseFailureReadOnly(err, query) == Return(<<>>, ErrReadOnly)

\* Query, when sqlparser.Parse failed
ParseFailure(err, query) == Return(<<>>, WrapQuery(err, "parsing query '%s'", query))

\* a database error dropped, the rows passed on
SelectReturnIgnoringError(results, err) == Return(results, Nil)

\* Query, after the call of QueryJSON
SelectReturn(results, err) ==
    IF err # Nil
    THEN Return(<<>>, Wrapf(err, "querying database client", <<>>))
    ELSE Return(results, Nil)

(***************************************************************************)
(* The requests explored.                                                  *)
(***************************************************************************)
Families == {famCat, famDog}

SchemaEmpty == [x \in {} |-> "string"]
SchemaDog == (fName :> "string") @@ (fWeight :> "int")
SchemaDogAge == (fName :> "string") @@ (fWeight :> "int") @@ (fAge :> "int")
SchemaFloat == (fName :> "float") @@ (fWeight :> "int")
Schemas == {SchemaEmpty, SchemaDog, SchemaDogAge, SchemaFloat}

RecFull == (fName :> Str(1)) @@ (fWeight :> Num(3))
RecAge == (fName :> Str(2)) @@ (fWeight :> Num(3)) @@ (fAge :> Num(10))
RecWeight == (fWeight :> Num(3))
RecBad == (fName :> Num(3))
Records == {RecFull, RecAge, RecWeight, RecBad}

Batches == UNION {[1..n -> Records] : n \in 0..MaxBatch}

Queries ==
    {<<QStmt(v, Escape(f))>> : v \in {"select", "insert", "drop", "garbage"}, f \in Families}
    \cup {<<QStmt("select", Escape(famDog)), QStmt(v, Escape(famCat))>> :
             v \in {"select", "drop"}}
    \cup {<<QStmt("drop", Escape(famDog)), QStmt("select", Escape(famCat))>>}

\* what the account may see of other schemas: nothing, a table of the
\* server's own schema mysql ("u", column "h"), or a table of another
\* database that has the name of a family ("d", column "x")
SystemRows == <<CatalogRow("mysql", <<117>>, <<104>>, "NO", "char")>>
ForeignRows == <<CatalogRow("other", famDog, <<120>>, "YES", "text")>>
OtherCatalogs == {<<>>, SystemRows, ForeignRows}

NoRequest == [family |-> <<>>, schema |-> SchemaEmpty, logs |-> <<>>, query |-> <<>>]

(***************************************************************************)
(* State.                                                                  *)
(***************************************************************************)
VARIABLES
    db,         \* the database: table name -> [cols, rows, autoInc]
    connUp,     \* whether the connection to the database works
    op,         \* the service operation last called, "idle" between calls
    req,        \* its arguments
    ret,        \* how it ended: the values returned, or a panic
    calls,      \* the DBClient and Table methods it called, in order
    sent,       \* the statements it passed to Exec, in order
    forwarded,  \* the query strings it passed to QueryJSON, in order
    parsed,     \* what sqlparser.Parse answered in it
    pre,        \* the database when it was called
    mid,        \* the database after its CreateTable call
    first,      \* table name -> the columns its creation gave it
    ingested,   \* table name -> the records of the successful Ingest calls,
                \* each with the schema of its call
    args,       \* the arguments it passed to Exec with the last statement
    catalog,    \* the rows the catalog answered to its Select
    http,       \* the HTTP request being served, if the call came by HTTP
    status,     \* the status code of the HTTP response, 0 while none is written
    procs,      \* the calls of concurrently handled requests: request ->
                \* [pc, family, schema, logs, table, ret]
    tables      \* c.tables, the table cache of the client that has one

vars == <<db, connUp, op, req, ret, calls, sent, forwarded, parsed, pre, mid, first, ingested,
          args, catalog, http, status, procs, tables>>

\* what the steps of one call at a time leave alone
concurrent == <<procs, tables>>

\* the requests handled at the same time
Requests == {1, 2}

\* a nil map
NilMap == "nil"

NoHTTP == [method |-> "", path |-> "", handler |-> ""]

NoProc == [pc |-> "idle", family |-> <<>>, schema |-> SchemaEmpty, logs |-> <<>>,
           table |-> TableHandle(<<>>, EmptyMap), ret |-> NoReturn]

NoParse == [stmt |-> "none", err |-> Nil]

EmptyDB == [t \in {} |-> [cols |-> <<>>, rows |-> <<>>, autoInc |-> 1]]

Init ==
    /\ db = EmptyDB
    /\ connUp = TRUE
    /\ op = "idle"
    /\ req = NoRequest
    /\ ret = NoReturn
    /\ calls = <<>>
    /\ sent = <<>>
    /\ forwarded = <<>>
    /\ parsed = NoParse
    /\ pre = EmptyDB
    /\ mid = EmptyDB
    /\ first = [t \in {} |-> <<>>]
    /\ ingested = [t \in {} |-> <<>>]
    /\ args = <<>>
    /\ catalog = <<>>
    /\ http = NoHTTP
    /\ status = 0
    /\ procs = [p \in Requests |-> NoProc]
    /\ tables = NilMap

RowCount(d, t) == IF t \in DOMAIN d THEN Len(d[t].rows) ELSE 0

\* the bookkeeping of the tables a call created and the records it stored
Created(d) == [t \in DOMAIN d |-> IF t \in DOMAIN first THEN first[t] ELSE d[t].cols]
Kept(d, t, schema, logs) ==
    [u \in DOMAIN d |->
        (IF u \in DOMAIN ingested THEN ingested[u] ELSE <<>>)
        \o (IF u = t
            THEN [i \in 1..Len(logs) |-> [schema |-> schema, record |-> logs[i]]]
            ELSE <<>>)]

\* Service.Ingest, validation failed or panicked
IngestRejected(family, schema, logs, chk) ==
    /\ chk.kind # "ok"
    /\ ret' = IF chk.kind = "panic" THEN Panic
              ELSE Return(<<>>, Wrapf(CheckError(chk), "validating %s logs against schema", family))
    /\ calls' = <<>>
    /\ sent' = <<>>
    /\ mid' = db
    /\ args' = <<>>
    /\ UNCHANGED <<db, connUp, first, ingested>>

\* an Ingest that goes on to Insert whatever CreateTable answered
IngestAcceptedInsertAnyway(family, schema, logs, chk) ==
    /\ chk.kind = "ok"
    /\ \E still \in {connUp, FALSE} :
       LET c == CreateTable(db, connUp, family, schema)
           i == Insert(c.db, still, c.table, logs)
       IN  /\ ret' = Return(<<>>, i.err)
           /\ calls' = <<"CreateTable", "Insert">>
           /\ sent' = c.sent \o i.sent
           /\ mid' = c.db
           /\ db' = i.db
           /\ connUp' = still
           /\ args' = i.args
           /\ first' = Created(i.db)
           /\ ingested' = Kept(i.db, Escape(family), schema,
                                IF i.err = Nil THEN logs ELSE <<>>)

\* Service.Ingest, validation passed.  The connection may be lost between
\* the Exec of CreateTable and the Exec of Insert.
IngestAccepted(family, schema, logs, chk) ==
    /\ chk.kind = "ok"
    /\ \E still \in {connUp, FALSE} :
       LET c == CreateTable(db, connUp, family, schema)
           i == Insert(c.db, still, c.table, logs)
       IN  IF c.err # Nil
           THEN /\ ret' = Return(<<>>, Wrapf(c.err, "creating table %s", family))
                /\ calls' = <<"CreateTable">>
                /\ sent' = c.sent
                /\ mid' = c.db
                /\ db' = c.db
                /\ args' = <<>>
                /\ UNCHANGED <<connUp, first, ingested>>
           ELSE /\ ret' = Return(<<>>, i.err)
                /\ calls' = <<"CreateTable", "Insert">>
                /\ sent' = c.sent \o i.sent
                /\ mid' = c.db
                /\ db' = i.db
                /\ connUp' = still
                /\ args' = i.args
                /\ first' = Created(i.db)
                /\ ingested' = Kept(i.db, Escape(family), schema,
                                     IF i.err = Nil THEN logs ELSE <<>>)

\* Service.Ingest
ServiceIngest ==
    /\ op = "idle"
    /\ \E family \in Families, schema \in Schemas, logs \in Batches :
          /\ RowCount(db, Escape(family)) + Len(logs) <= MaxRows
          /\ op' = "Ingest"
          /\ req' = [family |-> family, schema |-> schema, logs |-> logs, query |-> <<>>]
          /\ pre' = db
          /\ forwarded' = <<>>
          /\ parsed' = NoParse
          /\ catalog' = <<>>
          /\ UNCHANGED concurrent
          /\ \E chk \in checkLogSchema(schema, logs) :
                \/ IngestRejected(family, schema, logs, chk)
                \/ IngestAccepted(family, schema, logs, chk)

\* a call of Service.Ingest
Ingest == ServiceIngest /\ UNCHANGED <<http, status>>

\* Service.Query
ServiceQuery ==
    /\ op = "idle"
    /\ \E query \in Queries : \E p \in Parse(query) :
          /\ op' = "Query"
          /\ req' = [family |-> <<>>, schema |-> SchemaEmpty, logs |-> <<>>, query |-> query]
          /\ pre' = db
          /\ sent' = <<>>
          /\ parsed' = p
          /\ args' = <<>>
          /\ catalog' = <<>>
          /\ UNCHANGED <<connUp, first, ingested, concurrent>>
          /\ IF p.err # Nil
             THEN /\ ret' = ParseFailure(p.err, query)
                  /\ calls' = <<>>
                  /\ forwarded' = <<>>
                  /\ db' = db
                  /\ mid' = db
             ELSE IF IsSelect(p.stmt)
             THEN LET r == QueryJSON(db, connUp, query)
                  IN  /\ ret' = SelectReturn(r.rows, r.err)
                      /\ calls' = <<"QueryJSON">>
                      /\ forwarded' = <<query>>
                      /\ db' = r.db
                      /\ mid' = r.db
             ELSE /\ ret' = Return(<<>>, ErrReadOnly)
                  /\ calls' = <<>>
                  /\ forwarded' = <<>>
                  /\ db' = db
                  /\ mid' = db

\* a call of Service.Query
Query == ServiceQuery /\ UNCHANGED <<http, status>>

\* Service.DescribeLogs
DescribeLogs ==
    /\ op = "idle"
    /\ \E other \in OtherCatalogs, ownFirst \in BOOLEAN :
          LET r == DescribeDatabase(db, connUp, other, ownFirst)
          IN  /\ op' = "Describe"
              /\ req' = NoRequest
              /\ ret' = IF r.err # Nil
                        THEN Return(<<>>, Wrapf(r.err, "describing logs", <<>>))
                        ELSE Return(r.tables, Nil)
              /\ calls' = <<"DescribeDatabase">>
              /\ catalog' = r.rows
    /\ pre' = db
    /\ mid' = db
    /\ sent' = <<>>
    /\ args' = <<>>
    /\ forwarded' = <<>>
    /\ parsed' = NoParse
    /\ UNCHANGED <<db, connUp, first, ingested, http, status, concurrent>>

\* the caller takes the result; the service is ready for the next call
Respond ==
    /\ op # "idle"
    /\ op' = "idle"
    /\ req' = NoRequest
    /\ ret' = NoReturn
    /\ calls' = <<>>
    /\ sent' = <<>>
    /\ forwarded' = <<>>
    /\ parsed' = NoParse
    /\ pre' = db
    /\ mid' = db
    /\ args' = <<>>
    /\ catalog' = <<>>
    /\ http' = NoHTTP
    /\ status' = 0
    /\ UNCHANGED <<db, connUp, first, ingested, concurrent>>

\* the connection to the database fails or recovers between calls
ConnectionChange ==
    /\ op = "idle"
    /\ connUp' = ~connUp
    /\ UNCHANGED <<db, op, req, ret, calls, sent, forwarded, parsed, pre, mid, first, ingested,
                   args, catalog, http, status, concurrent>>

Next == Ingest \/ Query \/ DescribeLogs \/ Respond \/ ConnectionChange

Spec == Init /\ [][Next]_vars

(***************************************************************************)
(* The HTTP server in front of the service.                                *)
(***************************************************************************)
Methods == {"GET", "PUT", "POST"}
Paths == {"/api/log", "/api/query", "/api/describe", "/"}

\* the status a handler writes after the service call: 500 with its error,
\* 200 without; a panic ends the connection with no response
StatusOf(r) ==
    IF r.kind = "panic" THEN 0 ELSE IF r.err # Nil THEN 500 ELSE 200

\* a handler whose body does not decode: 500, the service is not called
BadBody ==
    /\ op' = "BadBody"
    /\ status' = 500
    /\ req' = NoRequest
    /\ ret' = NoReturn
    /\ calls' = <<>>
    /\ sent' = <<>>
    /\ args' = <<>>
    /\ catalog' = <<>>
    /\ forwarded' = <<>>
    /\ parsed' = NoParse
    /\ pre' = db
    /\ mid' = db
    /\ UNCHANGED <<db, connUp, first, ingested, concurrent>>

\* handler.ingestLogHandler
ingestLogHandler ==
    \/ BadBody
    \/ ServiceIngest /\ status' = StatusOf(ret')

\* handler.queryHandler
queryHandler ==
    \/ BadBody
    \/ ServiceQuery /\ status' = StatusOf(ret')

\* http.Error(w, "Route not found: ...", http.StatusNotFound)
RouteNotFound ==
    /\ op' = "NotFound"
    /\ status' = 404
    /\ req' = NoRequest
    /\ ret' = NoReturn
    /\ calls' = <<>>
    /\ sent' = <<>>
    /\ args' = <<>>
    /\ catalog' = <<>>
    /\ forwarded' = <<>>
    /\ parsed' = NoParse
    /\ pre' = db
    /\ mid' = db
    /\ UNCHANGED <<db, connUp, first, ingested, concurrent>>

\* handler.ServeHTTP
ServeHTTP ==
    /\ op = "idle"
    /\ \E method \in Methods, path \in Paths :
          IF path = "/api/log" /\ method = "PUT"
          THEN /\ http' = [method |-> method, path |-> path, handler |-> "ingestLogHandler"]
               /\ ingestLogHandler
          ELSE IF path = "/api/query" /\ method = "POST"
          THEN /\ http' = [method |-> method, path |-> path, handler |-> "queryHandler"]
               /\ queryHandler
          ELSE /\ http' = [method |-> method, path |-> path, handler |-> ""]
               /\ RouteNotFound

NextHTTP == ServeHTTP \/ Respond \/ ConnectionChange

SpecHTTP == Init /\ [][NextHTTP]_vars

(***************************************************************************)
(* Two requests handled at the same time.  net/http runs ServeHTTP for     *)
(* each request in a goroutine of its own, so the steps of two calls of    *)
(* Service.Ingest on the one client interleave: validation, the Exec of    *)
(* CreateTable, the Exec of Insert.  The connection works.                 *)
(***************************************************************************)
RaceSchemas == {SchemaDog, SchemaDogAge}

\* what a call of one request leaves alone
sequential == <<connUp, op, req, ret, calls, sent, forwarded, parsed, pre, mid, first,
                ingested, args, catalog, http, status>>

\* Service.Ingest of request p up to the end of checkLogSchema
IngestValidate(p) ==
    /\ procs[p].pc = "idle"
    /\ \E family \in Families, schema \in RaceSchemas, logs \in Batches :
       \E chk \in checkLogSchema(schema, logs) :
          procs' = [procs EXCEPT ![p] =
             [ pc     |-> IF chk.kind = "ok" THEN "create" ELSE "done",
               family |-> family,
               schema |-> schema,
               logs   |-> logs,
               table  |-> TableHandle(<<>>, EmptyMap),
               ret    |-> IF chk.kind = "ok" THEN NoReturn
                          ELSE IF chk.kind = "panic" THEN Panic
                          ELSE Return(<<>>, Wrapf(CheckError(chk),
                                         "validating %s logs against schema", family)) ]]
    /\ UNCHANGED <<db, tables, sequential>>

\* Service.Ingest of request p: the call of CreateTable
IngestCreate(p) ==
    /\ procs[p].pc = "create"
    /\ LET c == CreateTable(db, connUp, procs[p].family, procs[p].schema)
       IN  /\ db' = c.db
           /\ procs' = [procs EXCEPT ![p] =
                 IF c.err # Nil
                 THEN [@ EXCEPT !.pc = "done",
                                !.ret = Return(<<>>, Wrapf(c.err, "creating table %s",
                                                      procs[p].family))]
                 ELSE [@ EXCEPT !.pc = "insert", !.table = c.table]]
    /\ UNCHANGED <<tables, sequential>>

\* Service.Ingest of request p: the call of Insert on the table it got
IngestInsert(p) ==
    /\ procs[p].pc = "insert"
    /\ LET i == Insert(db, connUp, procs[p].table, procs[p].logs)
       IN  /\ db' = i.db
           /\ procs' = [procs EXCEPT ![p] =
                 [@ EXCEPT !.pc = "done", !.ret = Return(<<>>, i.err)]]
    /\ UNCHANGED <<tables, sequential>>

NextRace == \E p \in Requests : IngestValidate(p) \/ IngestCreate(p) \/ IngestInsert(p)

SpecRace == Init /\ [][NextRace]_vars

(***************************************************************************)
(* The client with the table cache (the version of pkg/mysql/client.go     *)
(* that has FindOrCreateTable and keeps every family in the table          *)
(* raw_logs), called by requests handled at the same time.  A call reads   *)
(* c.tables, sends the CREATE TABLE and writes c.tables, with no lock, so   *)
(* the three are steps of their own.                                       *)
(***************************************************************************)
\* "r" (raw_logs), and its columns "f" (family) and "l" (log)
RawLogs == <<114>>
RawLogsCreate ==
    [ op          |-> "create",
      ifNotExists |-> TRUE,
      table       |-> RawLogs,
      fields      |-> <<BQ \o <<102>> \o TextSuffix, BQ \o <<108>> \o TextSuffix>>,
      width       |-> 0,
      groups      |-> 0 ]

\* what a call of FindOrCreateTable leaves alone
uncached == <<op, req, ret, calls, forwarded, parsed, pre, mid, first,
              ingested, args, catalog, http, status>>

\* a request calls FindOrCreateTable(family, schema)
FindCall(p) ==
    /\ procs[p].pc = "idle"
    /\ \E family \in Families, schema \in RaceSchemas :
          procs' = [procs EXCEPT ![p] =
                      [NoProc EXCEPT !.pc = "lookup", !.family = family, !.schema = schema]]
    /\ UNCHANGED <<db, connUp, sent, tables, uncached>>

\* table, ok := c.tables[family]: a nil map has no entry
FindLookup(p) ==
    /\ procs[p].pc = "lookup"
    /\ procs' = [procs EXCEPT ![p] =
          IF tables # NilMap /\ procs[p].family \in DOMAIN tables
          THEN [@ EXCEPT !.pc = "done", !.table = tables[procs[p].family],
                         !.ret = Return(<<>>, Nil)]
          ELSE [@ EXCEPT !.pc = "create"]]
    /\ UNCHANGED <<db, connUp, sent, tables, uncached>>

\* c.Prepare and create.Exec of the CREATE TABLE IF NOT EXISTS
FindCreate(p) ==
    /\ procs[p].pc = "create"
    /\ LET res == Exec(db, connUp, RawLogsCreate, <<>>)
       IN  /\ db' = res.db
           /\ sent' = Append(sent, RawLogsCreate)
           /\ procs' = [procs EXCEPT ![p] =
                 IF res.err # Nil
                 THEN [@ EXCEPT !.pc = "done",
                                !.ret = Return(<<>>, Wrapf(res.err, "executing create statement", <<>>))]
                 ELSE [@ EXCEPT !.pc = "store", !.table = TableHandle(procs[p].family, procs[p].schema)]]
    /\ UNCHANGED <<connUp, tables, uncached>>

\* c.tables[family] = table: an assignment to an entry of a nil map panics
FindStore(p) ==
    /\ procs[p].pc = "store"
    /\ IF tables = NilMap
       THEN /\ procs' = [procs EXCEPT ![p] =
                  [@ EXCEPT !.pc = "done", !.table = TableHandle(<<>>, EmptyMap), !.ret = Panic]]
            /\ UNCHANGED tables
       ELSE /\ tables' = [f \in DOMAIN tables \cup {procs[p].family} |->
                            IF f = procs[p].family THEN procs[p].table ELSE tables[f]]
            /\ procs' = [procs EXCEPT ![p] = [@ EXCEPT !.pc = "done", !.ret = Return(<<>>, Nil)]]
    /\ UNCHANGED <<db, connUp, sent, uncached>>

\* the caller of request p takes the result; the request slot serves the next
FindReturn(p) ==
    /\ procs[p].pc = "done"
    /\ procs' = [procs EXCEPT ![p] = NoProc]
    /\ sent' = <<>>
    /\ UNCHANGED <<db, connUp, tables, uncached>>

NextCache ==
    \/ \E p \in Requests :
          FindCall(p) \/ FindLookup(p) \/ FindCreate(p) \/ FindStore(p) \/ FindReturn(p)
    \/ ConnectionChange

SpecCache == Init /\ [][NextCache]_vars

(***************************************************************************)
(* The statement builders on their own, called as their tests call them,   *)
(* on names that hold a '_', a ';', a quote or a backtick.                 *)
(***************************************************************************)
\* most entries of a schema handed to the builders
MaxFields == 2

\* table names: "d", "d`", "t;"
BuildNames == {famDog, <<100, 96>>, <<116, 59>>}

\* field names: "n", "n_", "q'", "b`"
fNameFirst == <<110, 95>>
fQuote == <<113, 39>>
fTick == <<98, 96>>
BuildFields == {fName, fNameFirst, fQuote, fTick}

Tags == {"string", "int", "float"}

BuildSchemas ==
    UNION {[F -> Tags] : F \in {G \in SUBSET BuildFields : Cardinality(G) <= MaxFields}}

\* the value a record has for a field: a string or a number, as its tag says
FieldValue(f, tag) == IF tag = "string" THEN Str(Head(f)) ELSE Num(Head(f))

\* the records that populate a subset of the schema's fields
BuildRecords(schema) ==
    {[f \in P |-> FieldValue(f, schema[f])] : P \in SUBSET DOMAIN schema}

BuildBatches(schema) == UNION {[1..n -> BuildRecords(schema)] : n \in 0..MaxBatch}

\* CreateTableStatement and InsertTableStatement called on one table name,
\* schema and batch
Build ==
    /\ op = "idle"
    /\ \E name \in BuildNames, schema \in BuildSchemas :
       \E records \in BuildBatches(schema) :
          LET built == InsertTableStatement(name, schema, records)
          IN  /\ op' = "Build"
              /\ req' = [family |-> name, schema |-> schema, logs |-> records, query |-> <<>>]
              /\ sent' = <<CreateTableStatement(name, schema), built.stmt>>
              /\ args' = built.args
    /\ UNCHANGED <<db, connUp, ret, calls, forwarded, parsed, pre, mid, first, ingested,
                   catalog, http, status, concurrent>>

NextBuild == Build \/ Respond

SpecBuild == Init /\ [][NextBuild]_vars

(***************************************************************************)
(* Properties.                                                             *)
(***************************************************************************)
\* the table of the family of the last Ingest call
ReqTable == Escape(req.family)

\* some record of the batch has a field the schema lacks or tags with an
\* unsupported type
HasInvalidField(schema, logs) ==
    \E i \in 1..Len(logs) : \E f \in DOMAIN logs[i] :
        f \notin DOMAIN schema \/ ~SupportedTag(schema[f])

IsValidationError(r) ==
    /\ r.kind = "return"
    /\ r.err # Nil
    /\ Head(r.err).msg = "validating %s logs against schema"

\* C1: whenever a record of the batch has a field that is not in the schema
\* or whose tag is unsupported, Ingest returns an error, calls neither
\* CreateTable nor Insert, and leaves the database as it was.
C1_ValidationAllOrNothing ==
    (op = "Ingest" /\ HasInvalidField(req.schema, req.logs))
    => /\ ret.kind = "return"
       /\ ret.err # Nil
       /\ calls = <<>>
       /\ sent = <<>>
       /\ db = pre

\* C2: whenever the schema declares an unsupported type tag for any field,
\* used by a record or not, Ingest reports a validation error and issues no
\* CreateTable and no Insert.
C2_UnsupportedTagRejected ==
    (op = "Ingest" /\ \E f \in DOMAIN req.schema : ~SupportedTag(req.schema[f]))
    => /\ IsValidationError(ret)
       /\ calls = <<>>
       /\ sent = <<>>

\* C3: a query that parses to a statement other than a SELECT gets exactly
\* ErrReadOnly with no results, QueryJSON is not invoked, and no Query call
\* changes the database.
C3_ReadOnlyBoundary ==
    /\ op = "Query" => db = pre
    /\ (op = "Query" /\ parsed.err = Nil /\ parsed.stmt # "Select")
       => /\ ret = [kind |-> "return", rows |-> <<>>, err |-> ErrReadOnly]
          /\ calls = <<>>
          /\ forwarded = <<>>

C3_Witness ==
    /\ op = "Query"
    /\ parsed = [stmt |-> "DDL", err |-> Nil]
    /\ Len(req.query) = 1
    /\ Head(req.query).table \in DOMAIN db
    /\ Len(db[Head(req.query).table].rows) > 0
    /\ ret.err = ErrReadOnly

C5_ParseErrorDistinct ==
    (op = "Query" /\ parsed.err # Nil)
    => /\ ret.kind = "return"
       /\ ret.rows = <<>>
       /\ ret.err # Nil
       /\ ret.err # ErrReadOnly
       /\ Head(ret.err).msg = "parsing query '%s'"
       /\ Head(ret.err).query = req.query
       /\ Tail(ret.err) = parsed.err
       /\ calls = <<>>
       /\ forwarded = <<>>

C5_Witness ==
    /\ op = "Query"
    /\ Len(req.query) = 1
    /\ Head(req.query).verb = "garbage"
    /\ parsed.err = ParseError
    /\ ret.err # Nil

\* C6: for a query that parses to a single SELECT, Query calls QueryJSON once
\* with the caller's string; when that call succeeds Query returns its rows
\* and a nil error, when it fails Query returns no rows and an error that is
\* not ErrReadOnly.
C6_SelectDelegated ==
    (op = "Query" /\ parsed.err = Nil /\ parsed.stmt = "Select")
    => /\ calls = <<"QueryJSON">>
       /\ forwarded = <<req.query>>
       /\ ret.kind = "return"
       /\ LET r == QueryJSON(pre, connUp, req.query)
          IN  /\ r.err = Nil => (ret.rows = r.rows /\ ret.err = Nil)
              /\ r.err # Nil => /\ ret.rows = <<>>
                                /\ ret.err # Nil
                                /\ ret.err # ErrReadOnly
                                /\ Tail(ret.err) = r.err

C6_Witness ==
    /\ op = "Query"
    /\ parsed.stmt = "Select"
    /\ calls = <<"QueryJSON">>
    /\ ret.err = Nil
    /\ Len(ret.rows) = 2

\* the statements of the given kind among those passed to Exec
SentOf(kind) == {i \in 1..Len(sent) : sent[i].op = kind}

\* C7: with a working connection, an Ingest of an empty batch under a schema
\* that passes validation returns nil, provisions the table, stores no row
\* and sends no INSERT statement.
C7_EmptyBatchNoOp ==
    (op = "Ingest" /\ req.logs = <<>> /\ connUp)
    => /\ ret = [kind |-> "return", rows |-> <<>>, err |-> Nil]
       /\ ReqTable \in DOMAIN db
       /\ RowCount(db, ReqTable) = RowCount(pre, ReqTable)
       /\ SentOf("insert") = {}

\* the columns a CREATE TABLE for the request's schema declares
ReqColumns ==
    <<IdColumn>> \o
    [i \in 1..Len(CreateTableStatement(req.family, req.schema).fields) |->
        ClauseColumn(CreateTableStatement(req.family, req.schema).fields[i])]

\* C8: every table keeps the columns its creation gave it; no Ingest removes
\* a table or changes the columns of one; and with a working connection the
\* CREATE TABLE of an Ingest for an existing table, under any schema,
\* succeeds and leaves the database as it was.
C8_TableNeverAltered ==
    /\ \A t \in DOMAIN db : t \in DOMAIN first /\ db[t].cols = first[t]
    /\ op = "Ingest"
       => \A t \in DOMAIN pre :
             /\ t \in DOMAIN db
             /\ db[t].cols = pre[t].cols
             /\ SubSeq(db[t].rows, 1, Len(pre[t].rows)) = pre[t].rows
    /\ (op = "Ingest" /\ calls # <<>> /\ connUp /\ ReqTable \in DOMAIN pre)
       => /\ calls = <<"CreateTable", "Insert">>
          /\ mid = pre

C8_Witness ==
    /\ op = "Ingest"
    /\ calls = <<"CreateTable", "Insert">>
    /\ ReqTable \in DOMAIN pre
    /\ Len(pre[ReqTable].rows) > 0
    /\ pre[ReqTable].cols # ReqColumns
    /\ mid = pre

\* C9: with a working connection, an Ingest into a family that has no table
\* yet, which passes validation and in which every record populates a strict
\* subset of the schema's fields, returns no error and stores one row per
\* record.
C9_SubsetBatchStored ==
    (/\ op = "Ingest"
     /\ connUp
     /\ ReqTable \notin DOMAIN pre
     /\ req.logs # <<>>
     /\ checkLogSchema(req.schema, req.logs) = {CheckOutcome("ok", <<>>)}
     /\ \A f \in DOMAIN req.schema : SupportedTag(req.schema[f])
     /\ \A i \in 1..Len(req.logs) :
           /\ DOMAIN req.logs[i] \subseteq DOMAIN req.schema
           /\ DOMAIN req.logs[i] # DOMAIN req.schema)
    => /\ ret = [kind |-> "return", rows |-> <<>>, err |-> Nil]
       /\ RowCount(db, ReqTable) = RowCount(pre, ReqTable) + Len(req.logs)

\* the row a query returns for an ingested record: an id, and under every
\* field the record has, text for a "string" field and a number for an "int"
\* field, with the ingested value
RowOfRecord(row, e) ==
    /\ IdName \in DOMAIN row
    /\ row[IdName].type = "number"
    /\ \A f \in DOMAIN e.record :
          /\ Escape(f) \in DOMAIN row
          /\ e.schema[f] = "string"
             => row[Escape(f)] = [type |-> "string", val |-> e.record[f].val]
          /\ e.schema[f] = "int"
             => row[Escape(f)] = [type |-> "number", val |-> e.record[f].val]

\* C10: a successful query SELECT * FROM <family> returns exactly one row
\* per record of the successful Ingest calls for the family, in their
\* order, each with an id, text under its "string" fields and numbers under
\* its "int" fields, holding the ingested values.
C10_RoundTrip ==
    (/\ op = "Query"
     /\ parsed = [stmt |-> "Select", err |-> Nil]
     /\ ret.err = Nil)
    => LET t == Head(req.query).table
       IN  /\ t \in DOMAIN ingested
           /\ Len(ret.rows) = Len(ingested[t])
           /\ \A i \in 1..Len(ret.rows) : RowOfRecord(ret.rows[i], ingested[t][i])
           /\ \A i, j \in 1..Len(ret.rows) :
                 ret.rows[i][IdName] = ret.rows[j][IdName] => i = j

C10_Witness ==
    /\ op = "Query"
    /\ parsed = [stmt |-> "Select", err |-> Nil]
    /\ ret.err = Nil
    /\ Len(ret.rows) = 2
    /\ \E i \in 1..2 : \E f \in DOMAIN ret.rows[i] : ret.rows[i][f].type = "string"
    /\ \E i \in 1..2 : \E f \in DOMAIN ret.rows[i] : ret.rows[i][f].type = "null"

\* C11: Ingest only appends and never deduplicates.  The rows of a table are
\* as many as the records of the successful Ingest calls for it, with
\* pairwise distinct ids; a successful Ingest of k records adds exactly k
\* rows after the rows that were there, which stay as they were, so that the
\* same request sent twice doubles the rows; a failed Ingest adds no row.
C11_AppendOnly ==
    /\ \A t \in DOMAIN db :
          /\ Len(db[t].rows) = Len(ingested[t])
          /\ \A i, j \in 1..Len(db[t].rows) :
                i # j => db[t].rows[i][IdName] # db[t].rows[j][IdName]
    /\ op = "Ingest"
       => /\ \A t \in DOMAIN pre :
                /\ t \in DOMAIN db
                /\ SubSeq(db[t].rows, 1, Len(pre[t].rows)) = pre[t].rows
                /\ t # ReqTable => db[t] = pre[t]
          /\ IF ret.kind = "return" /\ ret.err = Nil
             THEN RowCount(db, ReqTable) = RowCount(pre, ReqTable) + Len(req.logs)
             ELSE RowCount(db, ReqTable) = RowCount(pre, ReqTable)

\* the second of two identical successful requests
C11_Witness ==
    /\ op = "Ingest"
    /\ ret.kind = "return"
    /\ ret.err = Nil
    /\ Len(req.logs) = 1
    /\ RowCount(pre, ReqTable) = 1
    /\ RowCount(db, ReqTable) = 2
    /\ ingested[ReqTable][1] = ingested[ReqTable][2]
    /\ db[ReqTable].rows[1][fName] = db[ReqTable].rows[2][fName]
    /\ db[ReqTable].rows[1][IdName] # db[ReqTable].rows[2][IdName]

\* the statements the builders returned in the last Build
BuiltCreate == sent[1]
BuiltInsert == sent[2]

\* the escaped field name a column clause was written for: the text between
\* its first backtick and its type suffix
ClauseName(text) ==
    IF SubSeq(text, Len(text) - Len(TextSuffix) + 1, Len(text)) = TextSuffix
    THEN SubSeq(text, 2, Len(text) - Len(TextSuffix))
    ELSE SubSeq(text, 2, Len(text) - Len(IntSuffix))

\* a name written between backticks stays one identifier: none of its bytes
\* is the backtick that would close the quotes
StaysQuoted(ident) == \A i \in 1..Len(ident) : ident[i] # 96

\* C12: whatever the table name and the field names hold (a ';', a quote, a
\* backtick), in the statements the builders return each name stays inside
\* its backtick-quoted identifier: no byte of the name closes the quotes.
C12_EscapeNeutralizes ==
    op = "Build"
    => /\ StaysQuoted(BuiltCreate.table)
       /\ StaysQuoted(BuiltInsert.table)
       /\ \A i \in 1..Len(BuiltCreate.fields) :
             StaysQuoted(ClauseName(BuiltCreate.fields[i]))
       /\ \A i \in 1..Len(BuiltInsert.fields) : StaysQuoted(BuiltInsert.fields[i])

\* the schema's entries that get a column
Columns(schema) == {f \in DOMAIN schema : schema[f] \in {"string", "int"}}

\* C16: CreateTableStatement writes the column clauses in the lexicographic
\* order of the escaped field names, so that of two names of which one is a
\* prefix of the other the shorter comes first; it is the order in which
\* InsertTableStatement lists the columns of the same schema.
C16_ClauseOrder ==
    op = "Build"
    => /\ \A i, j \in 1..Len(BuiltCreate.fields) :
             i < j => StrLess(ClauseName(BuiltCreate.fields[i]),
                              ClauseName(BuiltCreate.fields[j]))
       /\ Columns(req.schema) = DOMAIN req.schema
          => /\ Len(BuiltCreate.fields) = Len(BuiltInsert.fields)
             /\ \A i \in 1..Len(BuiltCreate.fields) :
                   ClauseName(BuiltCreate.fields[i]) = BuiltInsert.fields[i]

\* C17: CreateTableStatement returns a CREATE TABLE IF NOT EXISTS on the
\* escaped table name, with exactly one clause for each schema entry tagged
\* "string" (a TEXT column) or "int" (an INT column), none of them NOT NULL,
\* and no clause for an entry with any other tag, so that an empty schema
\* gives the id column only; in the table the statement creates the first
\* column is id, the only one that is not nullable.
C17_CreateShape ==
    op = "Build"
    => /\ BuiltCreate.op = "create"
       /\ BuiltCreate.ifNotExists = TRUE
       /\ BuiltCreate.table = Escape(req.family)
       /\ Len(BuiltCreate.fields) = Cardinality(Columns(req.schema))
       /\ \A f \in DOMAIN req.schema :
             LET text == BQ \o Escape(f) \o TextSuffix
                 int  == BQ \o Escape(f) \o IntSuffix
                 at(clause) == {i \in 1..Len(BuiltCreate.fields) : BuiltCreate.fields[i] = clause}
             IN  /\ Cardinality(at(text)) = IF req.schema[f] = "string" THEN 1 ELSE 0
                 /\ Cardinality(at(int)) = IF req.schema[f] = "int" THEN 1 ELSE 0
       /\ LET res == ExecCreate(EmptyDB, BuiltCreate)
          IN  res.err = Nil
              => LET cols == res.db[BuiltCreate.table].cols
                 IN  /\ cols[1] = [name |-> IdName, type |-> "INT", nullable |-> FALSE]
                     /\ Len(cols) = 1 + Cardinality(Columns(req.schema))
                     /\ \A i \in 2..Len(cols) : cols[i].nullable

\* a schema with an entry that gets a TEXT column and one that gets none
C17_Witness ==
    /\ op = "Build"
    /\ req.schema = (fName :> "string") @@ (fNameFirst :> "float")
    /\ BuiltCreate.fields = <<BQ \o fName \o TextSuffix>>

\* C18: when all the records of the batch populate the same subset of the
\* schema's fields, the INSERT has as many placeholders as arguments.
C18_PlaceholdersMatchArgs ==
    (op = "Build" /\ \A i, j \in 1..Len(req.logs) : DOMAIN req.logs[i] = DOMAIN req.logs[j])
    => BuiltInsert.width * BuiltInsert.groups = Len(args)

\* the field of the schema whose escaped name is the given column
FieldOf(schema, column) == CHOOSE f \in DOMAIN schema : Escape(f) = column

\* C19: when every record of the batch has a value for every field of the
\* schema, the INSERT lists the escaped field names in sorted order, has one
\* group of |schema| placeholders per record, and its arguments are the
\* records' values row by row, each row in the order of the column list.
C19_FullBatchInsert ==
    (op = "Build" /\ \A i \in 1..Len(req.logs) : DOMAIN req.logs[i] = DOMAIN req.schema)
    => /\ BuiltInsert.op = "insert"
       /\ BuiltInsert.table = Escape(req.family)
       /\ {BuiltInsert.fields[i] : i \in 1..Len(BuiltInsert.fields)}
             = {Escape(f) : f \in DOMAIN req.schema}
       /\ \A i, j \in 1..Len(BuiltInsert.fields) :
             i < j => StrLess(BuiltInsert.fields[i], BuiltInsert.fields[j])
       /\ BuiltInsert.width = Cardinality(DOMAIN req.schema)
       /\ BuiltInsert.groups = Len(req.logs)
       /\ Len(args) = Len(req.logs) * Cardinality(DOMAIN req.schema)
       /\ \A g \in 1..Len(req.logs) : \A i \in 1..Len(BuiltInsert.fields) :
             args[(g - 1) * BuiltInsert.width + i]
                = req.logs[g][FieldOf(req.schema, BuiltInsert.fields[i])]

\* the description of a column the database holds
Described(c) ==
    [name |-> c.name, nullable |-> c.name # IdName,
     type |-> IF c.type = "TEXT" THEN "text" ELSE "int"]

\* C13: DescribeLogs reports exactly the tables the ingests created: one
\* description per table, which lists each declared column as nullable with
\* its type and the id column as not nullable, and no description of a
\* table that no ingest created, such as a system table.
C13_DescribeCreatedTables ==
    (op = "Describe" /\ ret.kind = "return" /\ ret.err = Nil)
    => /\ Len(ret.rows) = Cardinality(DOMAIN db)
       /\ \A k \in 1..Len(ret.rows) :
             /\ ret.rows[k].name \in DOMAIN db
             /\ Len(ret.rows[k].columns) = Len(db[ret.rows[k].name].cols)
             /\ {ret.rows[k].columns[i] : i \in 1..Len(ret.rows[k].columns)}
                   = {Described(db[ret.rows[k].name].cols[i]) :
                         i \in 1..Len(db[ret.rows[k].name].cols)}

\* the number of columns over all table descriptions
RECURSIVE TotalColumns(_)
TotalColumns(descriptions) ==
    IF descriptions = <<>> THEN 0
    ELSE Len(Head(descriptions).columns) + TotalColumns(Tail(descriptions))

\* the catalog rows of one table name, in their order
RowsNamed(rows, n) == LET Named(r) == r.Name = n IN SelectSeq(rows, Named)

\* the place of the first catalog row of a table name
FirstRow(rows, n) == CHOOSE k \in 1..Len(rows) :
                        rows[k].Name = n /\ \A m \in 1..(k - 1) : rows[m].Name # n

\* C20: from catalog rows ordered by table name DescribeDatabase makes one
\* table description per distinct table name, in the order of the rows; the
\* columns of a description are the rows of its table in their order; the
\* descriptions hold as many columns as there are rows; a column is nullable
\* exactly when its row says "YES"; no rows give no description.
C20_DescribeGrouping ==
    (op = "Describe" /\ ret.kind = "return" /\ ret.err = Nil)
    => /\ \A i, j \in 1..Len(ret.rows) : i # j => ret.rows[i].name # ret.rows[j].name
       /\ {ret.rows[i].name : i \in 1..Len(ret.rows)}
             = {catalog[k].Name : k \in 1..Len(catalog)}
       /\ \A i, j \in 1..Len(ret.rows) :
             i < j => FirstRow(catalog, ret.rows[i].name) < FirstRow(catalog, ret.rows[j].name)
       /\ \A i \in 1..Len(ret.rows) :
             LET rows == RowsNamed(catalog, ret.rows[i].name)
             IN  ret.rows[i].columns =
                    [k \in 1..Len(rows) |->
                        [name     |-> rows[k].Column,
                         nullable |-> rows[k].Nullable = "YES",
                         type     |-> rows[k].Datatype]]
       /\ TotalColumns(ret.rows) = Len(catalog)
       /\ catalog = <<>> => ret.rows = <<>>

\* two tables of the database and a table of the schema mysql, with
\* nullable and not nullable columns
C20_Witness ==
    /\ op = "Describe"
    /\ ret.err = Nil
    /\ Len(ret.rows) = 3
    /\ Len(catalog) > 5
    /\ \E k \in 1..Len(catalog) : catalog[k].Schema = "mysql"
    /\ \E i \in 1..Len(ret.rows) :
          /\ Len(ret.rows[i].columns) > 2
          /\ ~ret.rows[i].columns[1].nullable
          /\ ret.rows[i].columns[2].nullable

\* C15: one Ingest call validates, then calls CreateTable once with the
\* family and the schema, then calls Insert once on the table CreateTable
\* returned, and nothing after it.  When validation fails neither is called;
\* when CreateTable fails Insert is not called and Ingest returns an error;
\* when Insert fails Ingest returns its error.
C15_PipelineOrder ==
    op = "Ingest"
    => /\ calls \in {<<>>, <<"CreateTable">>, <<"CreateTable", "Insert">>}
       /\ Len(sent) = Len(calls)
       /\ calls = <<>> <=> (ret.kind = "panic" \/ IsValidationError(ret))
       /\ calls # <<>>
          => /\ sent[1].op = "create"
             /\ sent[1].table = ReqTable
             /\ mid = Exec(pre, calls # <<"CreateTable">> \/ connUp, sent[1], <<>>).db
             /\ calls = <<"CreateTable">> => Exec(pre, connUp, sent[1], <<>>).err # Nil
             /\ calls # <<"CreateTable">> => Exec(pre, TRUE, sent[1], <<>>).err = Nil
       /\ calls = <<"CreateTable">>
          => /\ ret.kind = "return"
             /\ ret.err # Nil
             /\ Head(ret.err).msg = "creating table %s"
             /\ db = mid
       /\ calls = <<"CreateTable", "Insert">>
          => /\ sent[2].op = "insert"
             /\ sent[2].table = sent[1].table
             /\ sent[2].width = Cardinality(DOMAIN req.schema)
             /\ sent[2].groups = Len(req.logs)
             /\ db = Exec(mid, connUp, sent[2], args).db
             /\ ret.kind = "return"
             /\ LET err == Exec(mid, connUp, sent[2], args).err
                IN  IF err = Nil THEN ret.err = Nil
                    ELSE /\ Head(ret.err).msg = "inserting records for %s table"
                         /\ Tail(ret.err) = err

\* CreateTable made the table and Insert then failed
C15_Witness ==
    /\ op = "Ingest"
    /\ calls = <<"CreateTable", "Insert">>
    /\ ReqTable \in DOMAIN db
    /\ ReqTable \notin DOMAIN pre
    /\ Len(req.logs) > 0
    /\ ret.err # Nil
    /\ Head(ret.err).msg = "inserting records for %s table"

\* C14: the HTTP handler serves the three documented endpoints: PUT /api/log
\* goes to Ingest, POST /api/query to Query and GET /api/describe to the
\* describe operation; every other method and path is answered 404 and
\* reaches no service operation.
C14_Routes ==
    http # NoHTTP
    => IF http.path = "/api/log" /\ http.method = "PUT"
       THEN http.handler = "ingestLogHandler" /\ op \in {"Ingest", "BadBody"}
       ELSE IF http.path = "/api/query" /\ http.method = "POST"
       THEN http.handler = "queryHandler" /\ op \in {"Query", "BadBody"}
       ELSE IF http.path = "/api/describe" /\ http.method = "GET"
       THEN op = "Describe" /\ calls = <<"DescribeDatabase">> /\ status # 404
       ELSE /\ op = "NotFound"
            /\ status = 404
            /\ calls = <<>>
            /\ db = pre

\* C21: a successful QueryJSON returns one mapping per row of the table, in
\* the table's row order, with the row's field names; a text value, which
\* the driver delivers as bytes, comes back as the text of those bytes, a
\* number or a NULL comes back as it is, and no value is a byte sequence.
C21_RowMaterialization ==
    (op = "Query" /\ calls = <<"QueryJSON">> /\ ret.err = Nil)
    => LET stored == pre[Head(req.query).table].rows
       IN  /\ Len(ret.rows) = Len(stored)
           /\ \A i \in 1..Len(ret.rows) :
                 /\ DOMAIN ret.rows[i] = DOMAIN stored[i]
                 /\ \A k \in DOMAIN stored[i] :
                       /\ ret.rows[i][k].type # "bytes"
                       /\ ret.rows[i][k].val = stored[i][k].val
                       /\ ret.rows[i][k].type = stored[i][k].type

\* two rows that differ, with text, numbers and a NULL
C21_Witness ==
    /\ op = "Query"
    /\ calls = <<"QueryJSON">>
    /\ ret.err = Nil
    /\ Len(ret.rows) = 2
    /\ ret.rows[1][fName] # ret.rows[2][fName]
    /\ ret.rows[1][fName].type = "string"
    /\ ret.rows[1][fWeight].type = "number"
    /\ \E k \in DOMAIN ret.rows[2] : ret.rows[2][k].type = "null"

\* C25: the error the service returns tells the stage that failed: a failed
\* validation, a failed table creation and a failed insert (both name the
\* table), a failed query read and a failed describe each have a context of
\* their own, which no other stage produces.
C25_ErrorsByStage ==
    (ret.kind = "return" /\ ret.err # Nil)
    => /\ (op = "Ingest" /\ calls = <<>>)
          <=> Head(ret.err).msg = "validating %s logs against schema"
       /\ (op = "Ingest" /\ calls = <<"CreateTable">>)
          <=> (Head(ret.err).msg = "creating table %s" /\ Head(ret.err).name = req.family)
       /\ (op = "Ingest" /\ calls = <<"CreateTable", "Insert">>)
          <=> (Head(ret.err).msg = "inserting records for %s table"
               /\ Head(ret.err).name = req.family)
       /\ (op = "Query" /\ calls = <<"QueryJSON">>)
          <=> Head(ret.err).msg = "querying database client"
       /\ op = "Describe" <=> Head(ret.err).msg = "describing logs"

\* a table creation that failed
C25_Witness ==
    /\ op = "Ingest"
    /\ calls = <<"CreateTable">>
    /\ ret.err # Nil
    /\ Head(ret.err).name = famDog
    /\ Len(ret.err) = 3

\* C26: Ingest always completes with a returned value, nil or an error,
\* whatever the values of the records are; it never panics.
C26_IngestReturns ==
    op = "Ingest" => ret.kind = "return"

\* C27: the two builders agree on the columns: every column in the column
\* list of the INSERT is a column the CREATE TABLE of the same table name and
\* schema declares, also when the schema has entries with unsupported tags.
C27_BuildersAgree ==
    op = "Build"
    => /\ BuiltInsert.table = BuiltCreate.table
       /\ \A i \in 1..Len(BuiltInsert.fields) :
             \E j \in 1..Len(BuiltCreate.fields) :
                ClauseName(BuiltCreate.fields[j]) = BuiltInsert.fields[i]

\* C28: InsertTableStatement loses no value: the value a record has under a
\* field of the schema is in the argument list, at the place of the field's
\* column in the record's row, also when Escape rewrites the field's name.
C28_NoValueLost ==
    (op = "Build" /\ \A i \in 1..Len(req.logs) : DOMAIN req.logs[i] = DOMAIN req.schema)
    => /\ Len(args) = Len(req.logs) * Cardinality(DOMAIN req.schema)
       /\ \A g \in 1..Len(req.logs) : \A f \in DOMAIN req.schema :
             \E i \in 1..Len(BuiltInsert.fields) :
                /\ BuiltInsert.fields[i] = Escape(f)
                /\ (g - 1) * BuiltInsert.width + i \in 1..Len(args)
                /\ args[(g - 1) * BuiltInsert.width + i] = req.logs[g][f]

\* C29 as stated: whenever Ingest returns an error the database is as it was
\* before the call, tables and rows; an Ingest for a new family whose insert
\* fails leaves no new table behind.
C29_FailedIngestUnchanged ==
    (op = "Ingest" /\ ret.kind = "return" /\ ret.err # Nil) => db = pre

\* C29 as amended: whenever Ingest returns an error every table that was
\* there is as it was, columns and rows, and no table has a row more; after
\* a validation error or a create error the database is as it was; after an
\* insert error the only change there can be is the table of the family,
\* newly created by the CreateTable of the call and empty.
C29_FailedIngestKeepsRows ==
    (op = "Ingest" /\ ret.kind = "return" /\ ret.err # Nil)
    => /\ \A t \in DOMAIN pre : t \in DOMAIN db /\ db[t] = pre[t]
       /\ \A t \in DOMAIN db \ DOMAIN pre :
             /\ t = ReqTable
             /\ calls = <<"CreateTable", "Insert">>
             /\ db[t].rows = <<>>
       /\ calls # <<"CreateTable", "Insert">> => db = pre

\* an Ingest of a fully populated batch for a new family whose insert failed
\* because the connection was lost after CreateTable: the table is there
C29_Witness ==
    /\ op = "Ingest"
    /\ ret.kind = "return"
    /\ ret.err # Nil
    /\ Head(ret.err).msg = "inserting records for %s table"
    /\ ret.err[2].msg = "driver: bad connection"
    /\ req.schema = SchemaDog
    /\ req.logs = <<RecFull, RecFull>>
    /\ DOMAIN pre # {}
    /\ ReqTable \notin DOMAIN pre
    /\ ReqTable \in DOMAIN db
    /\ db[ReqTable].rows = <<>>

\* the tables of the catalog: a table is a name in a schema
CatalogTables == {<<catalog[k].Schema, catalog[k].Name>> : k \in 1..Len(catalog)}

\* C30: DescribeDatabase keeps the tables of different schemas apart: there
\* is one description per table of the catalog, also when two schemas have a
\* table of the same name, and the columns of a description are those of
\* one table.
C30_SchemasApart ==
    (op = "Describe" /\ ret.kind = "return" /\ ret.err = Nil)
    => /\ Len(ret.rows) = Cardinality(CatalogTables)
       /\ \A i \in 1..Len(ret.rows) :
             \E t \in CatalogTables :
                /\ t[2] = ret.rows[i].name
                /\ Len(ret.rows[i].columns)
                      = Cardinality({k \in 1..Len(catalog) :
                                       catalog[k].Schema = t[1] /\ catalog[k].Name = t[2]})

\* request p got through validation
Validated(p) ==
    /\ procs[p].ret.kind = "return"
    /\ ~IsValidationError(procs[p].ret)

\* C24: the duplicate-create race is harmless: when two requests at the same
\* time ingest valid batches with the same schema into the same family that
\* has no table yet, then in every interleaving both CreateTable calls
\* succeed, one table exists afterwards, both Ingest calls return nil and
\* the table holds the rows of both batches.
C24_DuplicateCreateHarmless ==
    (/\ \A p \in Requests : procs[p].pc = "done" /\ Validated(p)
     /\ procs[1].family = procs[2].family
     /\ procs[1].schema = procs[2].schema)
    => /\ \A p \in Requests : procs[p].ret = [kind |-> "return", rows |-> <<>>, err |-> Nil]
       /\ DOMAIN db = {Escape(procs[1].family)}
       /\ Len(db[Escape(procs[1].family)].rows) = Len(procs[1].logs) + Len(procs[2].logs)

\* C22: on a client returned by Create, a FindOrCreateTable call for a
\* family that is not in the cache, which gets its CREATE TABLE through,
\* returns a table handle for the family and the schema and leaves the cache
\* mapping the family to that handle; a call that finds the family in the
\* cache returns the cached handle.
C22_CacheMissThenHit ==
    \A p \in Requests :
       (procs[p].pc = "done" /\ ~(procs[p].ret.kind = "return" /\ procs[p].ret.err # Nil))
       => /\ procs[p].ret = [kind |-> "return", rows |-> <<>>, err |-> Nil]
          /\ procs[p].table.Name = procs[p].family
          /\ tables # NilMap
          /\ procs[p].family \in DOMAIN tables
          /\ tables[procs[p].family] = procs[p].table

\* C23: the cache tolerates concurrent use: no request is about to read
\* c.tables while another is about to write it with nothing that orders the
\* two, no call breaks off, and when all calls are through the cache maps
\* every family asked for to a table handle of that family.
C23_CacheConcurrentUse ==
    /\ \A p, q \in Requests :
          ~(p # q /\ procs[p].pc = "lookup" /\ procs[q].pc = "store")
    /\ \A p \in Requests : procs[p].ret.kind # "panic"
    /\ \A p \in Requests :
          (procs[p].pc = "done" /\ procs[p].ret.err = Nil)
          => /\ tables # NilMap
             /\ procs[p].family \in DOMAIN tables
             /\ tables[procs[p].family].Name = procs[p].family

====
